---- MODULE Spec2Model ----
(***************************************************************************)
(* Model of the markdown heading-tree builder of the prompt visualizer     *)
(* (the memoized treeData computation of PromptVisualizer).                *)
(*                                                                         *)
(* Strings are sequences of one-character strings, so that split, the      *)
(* heading regular expression and trim are computed character by           *)
(* character.  JavaScript objects are functions from field names to        *)
(* values: a field is present iff its name is in the DOMAIN.  The heap is  *)
(* a sequence of objects; a reference is an index into it.                 *)
(***************************************************************************)
EXTENDS Integers, Sequences, FiniteSets, TLC

(***************************************************************************)
(* Bounds of the model.                                                    *)
(***************************************************************************)
MaxLines == 4

\* lines per input of the specification with fairness
MaxFairLines == 3

\* lines per input of the specification with two invocations
MaxTwoLines == 2

\* lines per input of the specification of the heading pattern
MaxRegexLines == 2

\* lines inserted into the six-level input of the specification of depth
MaxDeepExtra == 2

\* lines per input of the specification of the visualizer
MaxViewLines == 2

\* clicks on "Copy JSON" in the specification of the visualizer
MaxCopies == 1

\* calls of processGeminiRequest in the specification of the chat
MaxSends == 3

\* lines per input of the specification of the two implementations
MaxPairLines == 3

MaxToasts == 1

MaxPairs == 16

(***************************************************************************)
(* Characters.                                                             *)
(***************************************************************************)
\* \s of the regular expression and of String.prototype.trim, restricted
\* to the characters the inputs use
Whitespace == {" ", "\t", "\r"}

\* characters the regular expression's "." does not match
LineTerminator == {"\n", "\r"}

\* the fixed name of the root node
RootName == <<"S", "y", "s", "t", "e", "m", " ", "P", "r", "o", "m", "p", "t">>

\* the level the stack is seeded with
RootLevel == 0

\* the size hint stored in a leaf by the cleanup pass
LeafValue == 1

(***************************************************************************)
(* The lines the inputs are made of.                                       *)
(***************************************************************************)
LineA == <<"#", " ", "A">>
LineB == <<"#", "#", " ", "B">>
LineC == <<"#", "#", "#", " ", "\t", "C", " ">>
LineText == <<"t">>
LineEmpty == <<>>
LineBlank == <<" ", "\t">>
LineNoSpace == <<"#", "A">>
LineSeven == <<"#", "#", "#", "#", "#", "#", "#", " ", "G">>

InputLines ==
    {LineA, LineB, LineC, LineText, LineEmpty, LineBlank, LineNoSpace, LineSeven}

RECURSIVE JoinLines(_)
JoinLines(ls) ==
    IF Len(ls) = 0 THEN <<>>
    ELSE IF Len(ls) = 1 THEN ls[1]
    ELSE ls[1] \o <<"\n">> \o JoinLines(Tail(ls))

LineSeqs(ls, n) == UNION {[1..k -> ls] : k \in 1..n}

Inputs == {JoinLines(ls) : ls \in LineSeqs(InputLines, MaxLines)}

\* the inputs of the specification with fairness: a heading, the empty
\* line, a whitespace-only line and the two malformed headings
FairLines == {LineB, LineEmpty, LineBlank, LineNoSpace, LineSeven}

FairInputs == {JoinLines(ls) : ls \in LineSeqs(FairLines, MaxFairLines)}

\* the inputs of the specification with two invocations
TwoLines == {LineA, LineB, LineText}

TwoInputs == {JoinLines(ls) : ls \in LineSeqs(TwoLines, MaxTwoLines)}

\* the inputs of the specification of the heading pattern: the shapes a
\* line can have around the marker, and carriage returns after it
LineSix == <<"#", "#", "#", "#", "#", "#", " ", "F">>
LineIndented == <<" ", "#", " ", "A">>
LinePrefixed == <<"x", "#", " ", "A">>
LineTab == <<"#", "\t", "T">>
LineHashOnly == <<"#">>
LineHashSpace == <<"#", "#", " ">>
LineCrLf == <<"#", " ", "A", "\r">>
LineCrOnly == <<"#", "\r">>
LineCrInside == <<"#", " ", "A", "\r", "B">>

RegexLines ==
    {LineA, LineC, LineSix, LineSeven, LineNoSpace, LineIndented,
     LinePrefixed, LineTab, LineHashOnly, LineHashSpace, LineCrLf,
     LineCrOnly, LineCrInside}

RegexInputs == {JoinLines(ls) : ls \in LineSeqs(RegexLines, MaxRegexLines)}

\* the inputs of the specification of depth: one heading of each level in
\* increasing order, with up to MaxDeepExtra lines inserted anywhere
LineFour == <<"#", "#", "#", "#", " ", "D">>
LineFive == <<"#", "#", "#", "#", "#", " ", "E">>

SixLevels == <<LineA, LineB, LineC, LineFour, LineFive, LineSix>>

DeepLines == {LineA, LineC, LineSix, LineText}

InsertAt(ls, i, line) == SubSeq(ls, 1, i) \o <<line>> \o SubSeq(ls, i + 1, Len(ls))

RECURSIVE WithInserted(_, _)
WithInserted(lss, k) ==
    IF k = 0 THEN lss
    ELSE lss \cup WithInserted({InsertAt(ls, i, line) :
                                    ls \in lss, i \in 0..(Len(SixLevels) + MaxDeepExtra - k),
                                    line \in DeepLines} , k - 1)

DeepInputs == {JoinLines(ls) : ls \in WithInserted({SixLevels}, MaxDeepExtra)}

\* the inputs of the specification of the visualizer
ViewLines == {LineA, LineB}

ViewInputs == {JoinLines(ls) : ls \in LineSeqs(ViewLines, MaxViewLines)}

\* the inputs of the specification of the two implementations
PairLines ==
    {LineA, LineB, LineC, LineText, LineEmpty, LineNoSpace, LineSeven,
     LineCrInside}

PairInputs == {JoinLines(ls) : ls \in LineSeqs(PairLines, MaxPairLines)}

(***************************************************************************)
(* String functions of the host language.                                  *)
(***************************************************************************)
\* the pieces of md between separators, scanning from position i with the
\* current piece starting at position from
RECURSIVE SplitFrom(_, _, _)
SplitFrom(md, from, i) ==
    IF i > Len(md) THEN <<SubSeq(md, from, Len(md))>>
    ELSE IF md[i] = "\n"
    THEN <<SubSeq(md, from, i - 1)>> \o SplitFrom(md, i + 1, i + 1)
    ELSE SplitFrom(md, from, i + 1)

\* md.split('\n')
mdToLines(md) == SplitFrom(md, 1, 1)

\* the length of the longest run of characters of the set cls in s, from
\* position i on in direction dir (1 forwards, -1 backwards)
RECURSIVE RunDir(_, _, _, _)
RunDir(s, i, cls, dir) ==
    IF i >= 1 /\ i <= Len(s) /\ s[i] \in cls
    THEN 1 + RunDir(s, i + dir, cls, dir)
    ELSE 0

Run(s, i, cls) == RunDir(s, i, cls, 1)

\* String.prototype.trim: the string without its leading and its trailing
\* whitespace
trim(s) ==
    LET lead == Run(s, 1, Whitespace)
    IN  IF lead = Len(s) THEN <<>>
        ELSE SubSeq(s, lead + 1, Len(s) - RunDir(s, Len(s), Whitespace, -1))

Chars(s) == {s[i] : i \in 1..Len(s)}

\* a variant with the quantifier {1,7}
HeaderMatchSeven(line) ==
    LET ks == {k \in 1..7 :
                  /\ k + 1 <= Len(line)
                  /\ \A i \in 1..k : line[i] = "#"
                  /\ line[k + 1] \in Whitespace}
    IN  IF ks = {} THEN [matched |-> FALSE]
        ELSE LET k == CHOOSE x \in ks : \A y \in ks : y <= x
                 w == Run(line, k + 1, Whitespace)
                 d == Run(line, k + w + 1, Chars(line) \ LineTerminator)
             IN  [matched |-> TRUE,
                  g1 |-> SubSeq(line, 1, k),
                  g2 |-> SubSeq(line, k + w + 1, k + w + d)]

\* line.match(/^(#{1,6})\s+(.*)/): group 1 is one to six '#', followed by
\* a greedy run of at least one whitespace character, and group 2 runs to
\* the first character "." does not match
HeaderMatch(line) ==
    LET ks == {k \in 1..6 :
                  /\ k + 1 <= Len(line)
                  /\ \A i \in 1..k : line[i] = "#"
                  /\ line[k + 1] \in Whitespace}
    IN  IF ks = {} THEN [matched |-> FALSE]
        ELSE LET k == CHOOSE x \in ks : \A y \in ks : y <= x
                 w == Run(line, k + 1, Whitespace)
                 d == Run(line, k + w + 1, Chars(line) \ LineTerminator)
             IN  [matched |-> TRUE,
                  g1 |-> SubSeq(line, 1, k),
                  g2 |-> SubSeq(line, k + w + 1, k + w + d)]

(***************************************************************************)
(* Objects.                                                                *)
(***************************************************************************)
HasField(o, f) == f \in DOMAIN o

DeleteField(o, f) == [k \in DOMAIN o \ {f} |-> o[k]]

SetField(o, f, v) == [k \in DOMAIN o \cup {f} |-> IF k = f THEN v ELSE o[k]]

\* { name: text, children: [] }
NewNode(text) == [name |-> text, children |-> <<>>]

(***************************************************************************)
(* The builder.                                                            *)
(***************************************************************************)
\* a variant that seeds the stack with the root at level 1
BeginParseLevelOne(h, md) ==
    LET h1 == Append(h, NewNode(RootName))
        r == Len(h1)
    IN  [heap |-> h1,
         root |-> r,
         stack |-> <<[node |-> r, level |-> RootLevel + 1]>>,
         lines |-> mdToLines(md)]

\* a variant that seeds the stack with a copy of the root object
BeginParseCopiedRoot(h, md) ==
    LET h1 == Append(Append(h, NewNode(RootName)), NewNode(RootName))
        r == Len(h1) - 1
    IN  [heap |-> h1,
         root |-> r,
         stack |-> <<[node |-> r + 1, level |-> RootLevel]>>,
         lines |-> mdToLines(md)]

\* a variant that numbers the roots: the name ends with one "'" per object
\* allocated before
BeginParseCounted(h, md) ==
    LET h1 == Append(h, NewNode(RootName \o [i \in 1..Len(h) |-> "'"]))
        r == Len(h1)
    IN  [heap |-> h1,
         root |-> r,
         stack |-> <<[node |-> r, level |-> RootLevel]>>,
         lines |-> mdToLines(md)]

\* a variant with one root object for all invocations (a root declared
\* outside the function)
BeginParseSharedRoot(h, md) ==
    LET h1 == IF Len(h) = 0 THEN Append(h, NewNode(RootName)) ELSE h
    IN  [heap |-> h1,
         root |-> 1,
         stack |-> <<[node |-> 1, level |-> RootLevel]>>,
         lines |-> mdToLines(md)]

\* the split, the root node and the stack seed
BeginParse(h, md) ==
    LET h1 == Append(h, NewNode(RootName))
        r == Len(h1)
    IN  [heap |-> h1,
         root |-> r,
         stack |-> <<[node |-> r, level |-> RootLevel]>>,
         lines |-> mdToLines(md)]

\* a variant of the pop loop that compares with > and so stops at an entry
\* of the same level
RECURSIVE PopGreaterFrom(_, _, _)
PopGreaterFrom(s, n, level) ==
    IF n > 0 /\ s[n].level > level
    THEN PopGreaterFrom(s, n - 1, level)
    ELSE SubSeq(s, 1, n)

PopWhileGreater(s, level) == PopGreaterFrom(s, Len(s), level)

\* a variant of the pop loop with "if" in place of "while": at most one pop
PopOnce(s, level) ==
    IF Len(s) > 0 /\ s[Len(s)].level >= level
    THEN SubSeq(s, 1, Len(s) - 1)
    ELSE s

\* a variant without the pop loop
PopNever(s, level) == s

\* the pop loop on a stack of which the entries 1..n are left
RECURSIVE PopFrom(_, _, _)
PopFrom(s, n, level) ==
    IF n > 0 /\ s[n].level >= level
    THEN PopFrom(s, n - 1, level)
    ELSE SubSeq(s, 1, n)

\* while (stack.length > 0 && stack[stack.length - 1].level >= level) stack.pop()
PopWhile(s, level) == PopFrom(s, Len(s), level)

\* a variant that inserts the new node in front (unshift in place of push)
AttachFront(h, parent, id) ==
    LET h1 == IF ~HasField(h[parent], "children")
              THEN [h EXCEPT ![parent] = SetField(@, "children", <<>>)]
              ELSE h
    IN  [h1 EXCEPT ![parent] = SetField(@, "children", <<id>> \o @.children)]

\* a variant that inserts the new node before the last child
AttachBeforeLast(h, parent, id) ==
    LET h1 == IF ~HasField(h[parent], "children")
              THEN [h EXCEPT ![parent] = SetField(@, "children", <<>>)]
              ELSE h
        ch == h1[parent].children
    IN  [h1 EXCEPT ![parent] =
            SetField(@, "children",
                     IF Len(ch) = 0 THEN <<id>>
                     ELSE SubSeq(ch, 1, Len(ch) - 1) \o <<id, ch[Len(ch)]>>)]

\* parent.children.push(newNode), preceded by the creation of a missing
\* children array
Attach(h, parent, id) ==
    LET h1 == IF ~HasField(h[parent], "children")
              THEN [h EXCEPT ![parent] = SetField(@, "children", <<>>)]
              ELSE h
    IN  [h1 EXCEPT ![parent] = SetField(@, "children", Append(@.children, id))]

\* a variant that attaches the new node under the bottom entry of the stack
OnHeaderUnderBottom(h, s, headerMatch) ==
    LET level == Len(headerMatch.g1)
        text == trim(headerMatch.g2)
        h1 == Append(h, NewNode(text))
        newNode == Len(h1)
        s1 == PopWhile(s, level)
        h2 == IF Len(s1) > 0
              THEN Attach(h1, s1[1].node, newNode)
              ELSE h1
    IN  [heap |-> h2,
         stack |-> Append(s1, [node |-> newNode, level |-> level]),
         threw |-> FALSE]

\* a variant that lists the new node under the root as well as under the
\* top of the stack
OnHeaderAlsoUnderRoot(h, s, headerMatch) ==
    LET level == Len(headerMatch.g1)
        text == trim(headerMatch.g2)
        h1 == Append(h, NewNode(text))
        newNode == Len(h1)
        s1 == PopWhile(s, level)
        h2 == IF Len(s1) > 1
              THEN Attach(Attach(h1, s1[Len(s1)].node, newNode), s1[1].node, newNode)
              ELSE IF Len(s1) > 0
              THEN Attach(h1, s1[Len(s1)].node, newNode)
              ELSE h1
    IN  [heap |-> h2,
         stack |-> Append(s1, [node |-> newNode, level |-> level]),
         threw |-> FALSE]

\* a variant without stack.push
OnHeaderNoPush(h, s, headerMatch) ==
    LET level == Len(headerMatch.g1)
        text == trim(headerMatch.g2)
        h1 == Append(h, NewNode(text))
        newNode == Len(h1)
        s1 == PopWhile(s, level)
        h2 == IF Len(s1) > 0
              THEN Attach(h1, s1[Len(s1)].node, newNode)
              ELSE h1
    IN  [heap |-> h2,
         stack |-> s1,
         threw |-> FALSE]

\* the body of "if (headerMatch)": the new node, the pop loop, the attach
\* under the top of the stack if there is one, the push
OnHeader(h, s, headerMatch) ==
    LET level == Len(headerMatch.g1)
        text == trim(headerMatch.g2)
        h1 == Append(h, NewNode(text))
        newNode == Len(h1)
        s1 == PopWhile(s, level)
        h2 == IF Len(s1) > 0
              THEN Attach(h1, s1[Len(s1)].node, newNode)
              ELSE h1
    IN  [heap |-> h2,
         stack |-> Append(s1, [node |-> newNode, level |-> level]),
         threw |-> FALSE]

\* a variant of the callback without the "if (headerMatch)" test: reading
\* headerMatch[1] of null throws a TypeError
ForEachLineNoNullTest(h, s, line) ==
    LET headerMatch == HeaderMatch(line)
    IN  IF headerMatch.matched
        THEN OnHeader(h, s, headerMatch)
        ELSE [heap |-> h, stack |-> s, threw |-> TRUE]

\* a variant of the callback that turns a line that does not match into a
\* leaf under the top of the stack
ForEachLineTextLeaf(h, s, line) ==
    LET headerMatch == HeaderMatch(line)
    IN  IF headerMatch.matched
        THEN OnHeader(h, s, headerMatch)
        ELSE LET h1 == Append(h, NewNode(trim(line)))
             IN  [heap |-> Attach(h1, s[Len(s)].node, Len(h1)),
                  stack |-> s, threw |-> FALSE]

\* the callback of lines.forEach; a line that does not match changes nothing
ForEachLine(h, s, line) ==
    LET headerMatch == HeaderMatch(line)
    IN  IF headerMatch.matched
        THEN OnHeader(h, s, headerMatch)
        ELSE [heap |-> h, stack |-> s, threw |-> FALSE]

\* cleanTree(node)
RECURSIVE cleanTree(_, _), cleanEach(_, _, _)
cleanTree(h, node) ==
    IF HasField(h[node], "children") /\ Len(h[node].children) = 0
    THEN [h EXCEPT ![node] = SetField(DeleteField(@, "children"), "value", LeafValue)]
    ELSE IF HasField(h[node], "children")
    THEN cleanEach(h, h[node].children, 1)
    ELSE h

\* a variant of the loop over the children that stops after the first child
cleanEachFirstOnly(h, ch, i) ==
    IF i > Len(ch) THEN h ELSE cleanTree(h, ch[i])

\* node.children.forEach(cleanTree)
cleanEach(h, ch, i) ==
    IF i > Len(ch) THEN h ELSE cleanEach(cleanTree(h, ch[i]), ch, i + 1)

(***************************************************************************)
(* State.                                                                  *)
(***************************************************************************)
VARIABLES
    markdown,   \* the markdown prop of each invocation
    pc,         \* the position of each invocation
    lines,      \* the lines of each invocation
    idx,        \* the index of the line forEach visits next
    root,       \* the reference held by root
    stack,      \* the stack of {node, level} entries
    heap,       \* the objects allocated so far
    treeData,   \* the reference each invocation returned, 0 before it returns
    origin,     \* history: for each object, the invocation and the line that
                \* created it and the level pushed with it
    current,    \* the invocation of the latest render of the visualizer
    viewMode,   \* "graph" or "code"
    zoomLevel,  \* the scale shown, in tenths
    copyFeedback, \* the "Copied!" flag
    timers,     \* the pending setTimeout callbacks of handleCopyCode
    clipboard,  \* the text last written to the clipboard
    scene,      \* the D3 hierarchy nodes bound to the svg
    effectDeps, \* the dependencies of the last run of the D3 effect
    messages,   \* the transcript
    isLoading,  \* the loading flag
    toast,      \* the notification shown, or Null
    requests,   \* the calls of sendMessageToGemini that have not settled
    sent,       \* the number of calls of processGeminiRequest so far
    nextId,     \* the number of message ids drawn so far
    isUploadModalOpen,    \* the upload modal is shown
    pendingExamplePrompt, \* the prompt the upload modal will send, or Null
    modalImage,           \* the image picked in the upload modal, or Null
    apiKey,      \* process.env.API_KEY is set
    rendered,    \* the transcript and the loading flag of the latest render:
                 \* what the handlers close over and the buttons are shown by
    lastCall,    \* history: the latest call of sendMessageToGemini, with the
                 \* history handed to the backend chat if one was created
    settled,     \* history: the call that settled last, and how
    toastTimers, \* the pending setTimeout callbacks of showToast
    regenerated, \* history: the latest step is a run of handleRegenerate
    legacyPc,    \* the position of the call of parseMarkdownToTree
    legacyLines, \* its lines
    legacyIdx,   \* the index of the line its forEach visits next
    legacyRoot,  \* the reference held by its root
    legacyStack, \* its stack
    legacyHeap,  \* the objects it has allocated
    legacyData   \* the reference it returned, 0 before it returns

viewVars ==
    <<current, viewMode, zoomLevel, copyFeedback, timers, clipboard, scene,
      effectDeps>>

modalVars == <<isUploadModalOpen, pendingExamplePrompt, modalImage>>

chatVars ==
    <<messages, isLoading, toast, requests, sent, nextId, modalVars, apiKey,
      rendered, lastCall, settled, toastTimers, regenerated>>

builderVars ==
    <<markdown, pc, lines, idx, root, stack, heap, treeData, origin>>

legacyVars ==
    <<legacyPc, legacyLines, legacyIdx, legacyRoot, legacyStack, legacyHeap,
      legacyData>>

vars == <<builderVars, viewVars, chatVars, legacyVars>>

Invocations == DOMAIN pc

\* the level of the stack entry that holds the object n, -1 if there is none
PushedLevel(s, n) ==
    IF \E i \in 1..Len(s) : s[i].node = n
    THEN s[CHOOSE i \in 1..Len(s) : s[i].node = n].level
    ELSE -1

InitAll(cs, inputs, keys, transcripts, calls) ==
    /\ markdown \in [cs -> inputs]
    /\ pc = [c \in cs |-> "idle"]
    /\ lines = [c \in cs |-> <<>>]
    /\ idx = [c \in cs |-> 0]
    /\ root = [c \in cs |-> 0]
    /\ stack = [c \in cs |-> <<>>]
    /\ heap = <<>>
    /\ treeData = [c \in cs |-> 0]
    /\ origin = <<>>
    /\ current = 1
    /\ viewMode = "graph"
    /\ zoomLevel = 10
    /\ copyFeedback = FALSE
    /\ timers = 0
    /\ clipboard = <<>>
    /\ scene = {}
    /\ effectDeps = <<>>
    /\ messages \in transcripts
    /\ isLoading = FALSE
    /\ toast = "null"
    /\ requests = {}
    /\ sent = calls
    /\ nextId = Len(messages)
    /\ apiKey \in keys
    /\ rendered = [messages |-> messages, isLoading |-> FALSE]
    /\ lastCall = <<>>
    /\ settled = <<>>
    /\ toastTimers = 0
    /\ regenerated = FALSE
    /\ isUploadModalOpen = FALSE
    /\ pendingExamplePrompt = "null"
    /\ modalImage = "null"
    /\ legacyPc = "idle"
    /\ legacyLines = <<>>
    /\ legacyIdx = 0
    /\ legacyRoot = 0
    /\ legacyStack = <<>>
    /\ legacyHeap = <<>>
    /\ legacyData = 0

\* the state after construction: the key is set, the transcript is empty
InitWith(cs, inputs) == InitAll(cs, inputs, {TRUE}, {<<>>}, 0)

Init == InitWith({1}, Inputs)

\* the memo callback is entered: split, root, stack seed
Start(c) ==
    /\ pc[c] = "idle"
    /\ \E b \in {BeginParse(heap, markdown[c])} :
           /\ heap' = b.heap
           /\ root' = [root EXCEPT ![c] = b.root]
           /\ stack' = [stack EXCEPT ![c] = b.stack]
           /\ lines' = [lines EXCEPT ![c] = b.lines]
           /\ origin' = origin \o
                  [i \in 1..(Len(b.heap) - Len(heap)) |->
                      [inv |-> c, line |-> 0,
                       level |-> PushedLevel(b.stack, Len(heap) + i)]]
    /\ idx' = [idx EXCEPT ![c] = 1]
    /\ pc' = [pc EXCEPT ![c] = "loop"]
    /\ UNCHANGED <<markdown, treeData, viewVars, chatVars, legacyVars>>

\* one call of the forEach callback
ProcessLine(c) ==
    /\ pc[c] = "loop"
    /\ idx[c] <= Len(lines[c])
    /\ \E r \in {ForEachLine(heap, stack[c], lines[c][idx[c]])} :
           /\ heap' = r.heap
           /\ stack' = [stack EXCEPT ![c] = r.stack]
           /\ origin' = origin \o
                  [i \in 1..(Len(r.heap) - Len(heap)) |->
                      [inv |-> c, line |-> idx[c],
                       level |-> PushedLevel(r.stack, Len(heap) + i)]]
           /\ pc' = [pc EXCEPT ![c] = IF r.threw THEN "error" ELSE "loop"]
    /\ idx' = [idx EXCEPT ![c] = @ + 1]
    /\ UNCHANGED <<markdown, lines, root, treeData, viewVars, chatVars, legacyVars>>

\* a variant that returns the root without the cleanup pass
FinishNoClean(c) ==
    /\ pc[c] = "loop"
    /\ idx[c] > Len(lines[c])
    /\ treeData' = [treeData EXCEPT ![c] = root[c]]
    /\ pc' = [pc EXCEPT ![c] = "done"]
    /\ UNCHANGED <<markdown, lines, idx, root, stack, heap, origin, viewVars, chatVars, legacyVars>>

\* forEach is over: cleanTree(root); return root
Finish(c) ==
    /\ pc[c] = "loop"
    /\ idx[c] > Len(lines[c])
    /\ heap' = cleanTree(heap, root[c])
    /\ treeData' = [treeData EXCEPT ![c] = root[c]]
    /\ pc' = [pc EXCEPT ![c] = "done"]
    /\ UNCHANGED <<markdown, lines, idx, root, stack, origin, viewVars, chatVars, legacyVars>>

Next ==
    \/ \E c \in Invocations : Start(c)
    \/ \E c \in Invocations : ProcessLine(c)
    \/ \E c \in Invocations : Finish(c)

Spec == Init /\ [][Next]_vars

\* the builder is synchronous and runs to completion: a computation that
\* can take a step takes it
InitFair == InitWith({1}, FairInputs)

FairSpec == InitFair /\ [][Next]_vars /\ WF_vars(Next)

\* two invocations of the builder, their steps interleaved in any order
InitTwo == InitWith({1, 2}, TwoInputs)

SpecTwo == InitTwo /\ [][Next]_vars

\* one invocation on the line shapes of the heading pattern
InitRegex == InitWith({1}, RegexInputs)

SpecRegex == InitRegex /\ [][Next]_vars

\* one invocation on the six-level inputs
InitDeep == InitWith({1}, DeepInputs)

SpecDeep == InitDeep /\ [][Next]_vars

(***************************************************************************)
(* The builder as a function of its input.                                 *)
(***************************************************************************)
\* lines.forEach(...) from line i on
RECURSIVE ForEach(_, _, _, _)
ForEach(h, s, ls, i) ==
    IF i > Len(ls) THEN [heap |-> h, stack |-> s]
    ELSE LET r == ForEachLine(h, s, ls[i])
         IN  ForEach(r.heap, r.stack, ls, i + 1)

\* the object n with every reference replaced by the object it refers to:
\* the value deep equality compares
RECURSIVE ToTree(_, _)
ToTree(h, n) ==
    IF HasField(h[n], "children")
    THEN SetField(h[n], "children",
                  [i \in 1..Len(h[n].children) |-> ToTree(h, h[n].children[i])])
    ELSE h[n]

\* the tree the builder returns for md, built on a heap of its own
Build(md) ==
    LET b == BeginParse(<<>>, md)
        f == ForEach(b.heap, b.stack, b.lines, 1)
    IN  ToTree(cleanTree(f.heap, b.root), b.root)

(***************************************************************************)
(* Vocabulary of the properties.                                           *)
(***************************************************************************)
\* the children array of n, empty if n has none
Children(h, n) == IF HasField(h[n], "children") THEN h[n].children ELSE <<>>

\* the objects that hold n in their children array
ParentsOf(h, n) ==
    {p \in DOMAIN h : \E i \in 1..Len(Children(h, p)) : Children(h, p)[i] = n}

\* the position of n in the children array of p
ChildIndex(h, p, n) ==
    CHOOSE i \in 1..Len(Children(h, p)) : Children(h, p)[i] = n

\* the objects of the tree below n, n included
RECURSIVE TreeNodes(_, _)
TreeNodes(h, n) ==
    {n} \cup UNION {TreeNodes(h, Children(h, n)[i]) : i \in 1..Len(Children(h, n))}

\* the number of edges between n and the root of its tree
RECURSIVE Depth(_, _)
Depth(h, n) ==
    IF ParentsOf(h, n) = {} THEN 0
    ELSE 1 + Depth(h, CHOOSE p \in ParentsOf(h, n) : TRUE)

\* the objects the invocation c created, and those it created for a heading
NodesOf(c) == {n \in DOMAIN heap : origin[n].inv = c}

HeadingNodes(c) == {n \in NodesOf(c) : origin[n].line > 0}

IsHeading(line) == HeaderMatch(line).matched

\* the input with every line that is not a heading removed
HeadingsOnly(md) == JoinLines(SelectSeq(mdToLines(md), IsHeading))

Started(c) == pc[c] \in {"loop", "done"}

Done(c) == pc[c] = "done"

(***************************************************************************)
(* The visualizer around the builder: the view toggle, the D3 effect, zoom *)
(* and click on the graph, "Copy JSON", and a render with another markdown *)
(* prop.                                                                   *)
(***************************************************************************)
Digits == <<"0", "1", "2", "3", "4", "5", "6", "7", "8", "9">>

\* the decimal digits of a natural number
RECURSIVE NumberToString(_)
NumberToString(n) ==
    IF n < 10 THEN <<Digits[n + 1]>>
    ELSE NumberToString(n \div 10) \o <<Digits[(n % 10) + 1]>>

\* the JSON text of a string: quotes around it, escapes inside it
RECURSIVE EscapeFrom(_, _)
EscapeFrom(s, i) ==
    IF i > Len(s) THEN <<>>
    ELSE (CASE s[i] = "\"" -> <<"\\", "\"">>
            [] s[i] = "\\" -> <<"\\", "\\">>
            [] s[i] = "\t" -> <<"\\", "t">>
            [] s[i] = "\r" -> <<"\\", "r">>
            [] s[i] = "\n" -> <<"\\", "n">>
            [] OTHER -> <<s[i]>>) \o EscapeFrom(s, i + 1)

Quote(s) == <<"\"">> \o EscapeFrom(s, 1) \o <<"\"">>

Pad(n) == [i \in 1..n |-> " "]

\* JSON.stringify(node, null, 2) at the indentation ind: the fields in the
\* order they were added, arrays and objects one entry per line
RECURSIVE Stringify(_, _, _), StringifyEach(_, _, _, _)
Stringify(h, n, ind) ==
    <<"{", "\n">> \o Pad(ind + 2)
        \o <<"\"", "n", "a", "m", "e", "\"", ":", " ">> \o Quote(h[n].name)
        \o (IF HasField(h[n], "children")
            THEN <<",", "\n">> \o Pad(ind + 2)
                     \o <<"\"", "c", "h", "i", "l", "d", "r", "e", "n", "\"", ":", " ", "[">>
                     \o (IF Len(h[n].children) = 0 THEN <<>>
                         ELSE <<"\n">> \o StringifyEach(h, h[n].children, 1, ind + 4)
                                  \o <<"\n">> \o Pad(ind + 2))
                     \o <<"]">>
            ELSE <<>>)
        \o (IF HasField(h[n], "value")
            THEN <<",", "\n">> \o Pad(ind + 2)
                     \o <<"\"", "v", "a", "l", "u", "e", "\"", ":", " ">>
                     \o NumberToString(h[n].value)
            ELSE <<>>)
        \o <<"\n">> \o Pad(ind) \o <<"}">>

StringifyEach(h, ch, i, ind) ==
    Pad(ind) \o Stringify(h, ch[i], ind)
        \o (IF i < Len(ch) THEN <<",", "\n">> \o StringifyEach(h, ch, i + 1, ind) ELSE <<>>)

\* the label of a node of the graph
Label(name) ==
    IF Len(name) > 35 THEN SubSeq(name, 1, 32) \o <<".", ".", ".">> ELSE name

\* d3.hierarchy(treeData) with the labels drawn: one wrapper per node of
\* the tree, holding a reference to it
Hierarchy(h, n) ==
    {[data |-> m,
      depth |-> Depth(h, m),
      branch |-> HasField(h[m], "children"),
      label |-> Label(h[m].name)] : m \in TreeNodes(h, n)}

\* the scale the click on a node of depth d zooms to, in tenths:
\* Math.max(1.2, Math.min(3.5, d.depth * 0.8 + 1))
TargetZoom(d) ==
    LET k == d * 8 + 10
        m == IF k < 35 THEN k ELSE 35
    IN  IF m > 12 THEN m ELSE 12

\* scales of the wheel and of the drag, in tenths: the two ends of
\* scaleExtent([0.1, 8]) and two scales between them
ZoomScales == {1, 10, 25, 80}

\* the component is between two renders
Idle == Done(current)

RenderStart == Start(current)

RenderLine == ProcessLine(current)

RenderFinish == Finish(current)

\* the D3 effect, run after a render that changed treeData or viewMode
RenderEffect ==
    /\ Idle
    /\ effectDeps # <<treeData[current], viewMode>>
    /\ effectDeps' = <<treeData[current], viewMode>>
    /\ IF viewMode # "graph"
       THEN UNCHANGED <<scene, zoomLevel>>
       ELSE /\ scene' = Hierarchy(heap, treeData[current])
            /\ zoomLevel' = 9
    /\ UNCHANGED <<markdown, pc, lines, idx, root, stack, heap, treeData, origin,
                   chatVars, legacyVars,
                   current, viewMode, copyFeedback, timers, clipboard>>

\* the buttons "Graph" and "JSON"
SetViewMode(m) ==
    /\ Idle
    /\ viewMode' = m
    /\ UNCHANGED <<markdown, pc, lines, idx, root, stack, heap, treeData, origin,
                   chatVars, legacyVars,
                   current, zoomLevel, copyFeedback, timers, clipboard, scene,
                   effectDeps>>

\* the "zoom" listener, on a wheel or drag gesture over the svg
Zoom(k) ==
    /\ Idle
    /\ viewMode = "graph"
    /\ scene # {}
    /\ zoomLevel' = k
    /\ UNCHANGED <<markdown, pc, lines, idx, root, stack, heap, treeData, origin,
                   chatVars, legacyVars,
                   current, viewMode, copyFeedback, timers, clipboard, scene,
                   effectDeps>>

\* a variant of the click listener that folds the node: it takes the
\* children off the datum
ClickNodeCollapse(d) ==
    /\ Idle
    /\ viewMode = "graph"
    /\ d \in scene
    /\ heap' = [heap EXCEPT ![d.data] = DeleteField(@, "children")]
    /\ zoomLevel' = TargetZoom(d.depth)
    /\ UNCHANGED <<markdown, pc, lines, idx, root, stack, treeData, origin,
                   chatVars, legacyVars,
                   current, viewMode, copyFeedback, timers, clipboard, scene,
                   effectDeps>>

\* the "click" listener of a node of the graph: the transition to the
\* transform centred on the node, which ends at the target scale
ClickNode(d) ==
    /\ Idle
    /\ viewMode = "graph"
    /\ d \in scene
    /\ zoomLevel' = TargetZoom(d.depth)
    /\ UNCHANGED <<markdown, pc, lines, idx, root, stack, heap, treeData, origin,
                   chatVars, legacyVars,
                   current, viewMode, copyFeedback, timers, clipboard, scene,
                   effectDeps>>

\* handleCopyCode
CopyCode ==
    /\ Idle
    /\ viewMode = "code"
    /\ timers < MaxCopies
    /\ clipboard' = Stringify(heap, treeData[current], 0)
    /\ copyFeedback' = TRUE
    /\ timers' = timers + 1
    /\ UNCHANGED <<markdown, pc, lines, idx, root, stack, heap, treeData, origin,
                   chatVars, legacyVars,
                   current, viewMode, zoomLevel, scene, effectDeps>>

\* the callback of the setTimeout of handleCopyCode
CopyFeedbackTimeout ==
    /\ pc[current] # "loop"
    /\ timers > 0
    /\ copyFeedback' = FALSE
    /\ timers' = timers - 1
    /\ UNCHANGED <<markdown, pc, lines, idx, root, stack, heap, treeData, origin,
                   chatVars, legacyVars,
                   current, viewMode, zoomLevel, clipboard, scene, effectDeps>>

\* the parent renders the visualizer with another markdown prop: the memo
\* callback is due again
ChangeMarkdown ==
    /\ Idle
    /\ \E c \in Invocations :
           /\ pc[c] = "idle"
           /\ markdown[c] # markdown[current]
           /\ current' = c
    /\ UNCHANGED <<markdown, pc, lines, idx, root, stack, heap, treeData, origin,
                   chatVars, legacyVars,
                   viewMode, zoomLevel, copyFeedback, timers, clipboard, scene,
                   effectDeps>>

NextView ==
    \/ RenderStart
    \/ RenderLine
    \/ RenderFinish
    \/ RenderEffect
    \/ \E m \in {"graph", "code"} : SetViewMode(m)
    \/ \E k \in ZoomScales : Zoom(k)
    \/ \E d \in scene : ClickNode(d)
    \/ CopyCode
    \/ CopyFeedbackTimeout
    \/ ChangeMarkdown

InitView == InitWith({1, 2}, ViewInputs)

SpecView == InitView /\ [][NextView]_vars

(***************************************************************************)
(* The chat: the transcript, the loading flag and the calls of the         *)
(* generative-AI service.  A handler runs to its end, and the components   *)
(* are rendered again before the next event, so a handler reads the        *)
(* current state.  The timestamp of a message, which no handler reads, is  *)
(* left out.                                                               *)
(***************************************************************************)
Null == "null"

Undefined == "undefined"

RoleUser == "user"

RoleModel == "model"

\* the prompts of the three example chips, shortened
PromptRedTeam == <<"R">>

PromptDentist == <<"D">>

PromptDocs == <<"O">>

EXAMPLES ==
    {[id |-> "red-team", prompt |-> PromptRedTeam],
     [id |-> "dentist", prompt |-> PromptDentist],
     [id |-> "docs", prompt |-> PromptDocs]}

\* what the user can have typed into the input area, and attached
TypedTexts == {<<"h", "i">>, <<" ">>}

ImageData == "data:image/png;base64,AA"

Attachments == {Null, ImageData}

\* a text the backend answers with: markdown
AnswerText == LineA


(***************************************************************************)
(* sendMessageToGemini: the history and the message as they are handed to  *)
(* the backend chat, the reply of the backend, and the text returned.      *)
(* The texts of the error messages are shortened.                          *)
(***************************************************************************)
\* the data URL of an image whose type has characters outside [a-z]
ImageSvg == "data:image/svg+xml;base64,AA"

\* s holds the characters of p from position i on
HasAt(s, i, p) ==
    /\ i + Len(p) - 1 <= Len(s)
    /\ \A k \in 1..Len(p) : s[i + k - 1] = p[k]

\* image.match(/^data:(image\/[a-z]+);base64,(.+)$/)
DataUrlMatch(s) ==
    LET head == <<"d", "a", "t", "a", ":", "i", "m", "a", "g", "e", "/">>
        k == Run(s, Len(head) + 1,
                 {"a", "b", "c", "d", "e", "f", "g", "h", "i", "j", "k", "l", "m",
                  "n", "o", "p", "q", "r", "s", "t", "u", "v", "w", "x", "y", "z"})
        mid == <<";", "b", "a", "s", "e", "6", "4", ",">>
        from == Len(head) + k + Len(mid) + 1
    IN  IF /\ HasAt(s, 1, head)
           /\ k >= 1
           /\ HasAt(s, Len(head) + k + 1, mid)
           /\ from <= Len(s)
           /\ \A i \in from..Len(s) : s[i] \notin LineTerminator
        THEN [matched |-> TRUE,
              g1 |-> SubSeq(s, 6, Len(head) + k),
              g2 |-> SubSeq(s, from, Len(s))]
        ELSE [matched |-> FALSE]

\* the inlineData part of an image, if the image is there and matches
ImageParts(image) ==
    IF image = Null \/ image = Undefined THEN <<>>
    ELSE LET match ==
                 DataUrlMatch(
                     IF image = ImageData
                     THEN <<"d", "a", "t", "a", ":", "i", "m", "a", "g", "e", "/", "p", "n", "g">>
                               \o <<";", "b", "a", "s", "e", "6", "4", ",", "A", "A">>
                     ELSE <<"d", "a", "t", "a", ":", "i", "m", "a", "g", "e", "/", "s", "v", "g", "+", "x", "m", "l">>
                               \o <<";", "b", "a", "s", "e", "6", "4", ",", "A", "A">>)
         IN  IF match.matched
             THEN <<[inlineData |-> [mimeType |-> match.g1, data |-> match.g2]]>>
             ELSE <<>>

\* text && text.trim() !== ""
NonBlank(text) == Len(text) > 0 /\ trim(text) # <<>>

\* a variant of the entry without the single-space part
FormatEntryNoFallback(msg) ==
    [role |-> IF msg.role = "user" THEN "user" ELSE "model",
     parts |-> ImageParts(msg.image)
                   \o (IF NonBlank(msg.text) THEN <<[text |-> msg.text]>> ELSE <<>>)]

\* one entry of formattedHistory
FormatEntry(msg) ==
    LET imageParts == ImageParts(msg.image)
    IN  [role |-> IF msg.role = "user" THEN "user" ELSE "model",
         parts |-> imageParts
                       \o (IF NonBlank(msg.text) THEN <<[text |-> msg.text]>>
                           ELSE IF Len(imageParts) = 0 THEN <<[text |-> <<" ">>]>>
                           ELSE <<>>)]

FormattedHistory(history) == [i \in 1..Len(history) |-> FormatEntry(history[i])]

MAX_HISTORY_LENGTH == 30

\* a variant that keeps the first entries
pruneHistoryHead(history) ==
    IF Len(history) <= MAX_HISTORY_LENGTH THEN history
    ELSE SubSeq(history, 1, MAX_HISTORY_LENGTH)

\* history.slice(-MAX_HISTORY_LENGTH) for a history that is too long
pruneHistory(history) ==
    IF Len(history) <= MAX_HISTORY_LENGTH THEN history
    ELSE SubSeq(history, Len(history) - MAX_HISTORY_LENGTH + 1, Len(history))

\* the parts of the current message
CurrentParts(userMessage, image) ==
    ImageParts(image)
        \o (IF NonBlank(userMessage) THEN <<[text |-> userMessage]>> ELSE <<>>)

\* the call gets as far as chat.sendMessage: there is a key, and a text or
\* an image part to send
ReachesBackend(key, userText, image) ==
    key /\ Len(CurrentParts(userText, image)) > 0

\* the values thrown: an Error with its message, or a value that is no Error
ErrorOf(message) == [isError |-> TRUE, message |-> message]

MsgNoKey == <<"n", "o", " ", "k", "e", "y">>

MsgEmptyMessage == <<"e", "m", "p", "t", "y", " ", "m", "e", "s", "s", "a", "g", "e">>

MsgSafety == <<"s", "a", "f", "e", "t", "y">>

UnknownError == <<"U", "n", "k", "n", "o", "w", "n", " ", "e", "r", "r", "o", "r">>

RateLimitText == <<"r", "a", "t", "e", " ", "l", "i", "m", "i", "t">>

ErrorPrefix == <<"E", "r", "r", "o", "r", ":", " ">>

\* what the backend does with a message: a response, or a thrown value
ResponseOf(finishReason, text, parts, chunks) ==
    [kind |-> "response", finishReason |-> finishReason, text |-> text,
     parts |-> parts, chunks |-> chunks]

ThrowOf(error) == [kind |-> "throw", error |-> error]

ReplyOk == ResponseOf("STOP", AnswerText, <<>>, <<>>)

ReplySafety == ResponseOf("SAFETY", <<>>, <<>>, <<>>)

FailNetwork == ThrowOf(ErrorOf(<<"f", "e", "t", "c", "h", " ", "f", "a", "i", "l", "e", "d">>))

FailQuota == ThrowOf(ErrorOf(<<"s", "t", "a", "t", "u", "s", ":", " ", "4", "2", "9">>))

FailNotAnError == ThrowOf([isError |-> FALSE])

\* the replies of the backend: responses that end with STOP or OTHER,
\* blocked ones, one without text, one with its text in the parts only, one
\* with grounding chunks, and rejections
BackendReplies ==
    {ReplyOk, ReplySafety, FailNetwork, FailQuota, FailNotAnError,
     ResponseOf("OTHER", AnswerText, <<>>, <<>>),
     ResponseOf("RECITATION", AnswerText, <<>>, <<>>),
     ResponseOf("STOP", <<>>, <<>>, <<>>),
     ResponseOf("STOP", <<>>, <<LineA, <<>>, LineB>>, <<>>),
     ResponseOf("STOP", AnswerText, <<>>,
                <<[web |-> [title |-> <<"T">>, uri |-> <<"u">>]],
                  [other |-> TRUE],
                  [web |-> [title |-> <<"V">>, uri |-> <<"w">>]]>>)}

\* parts.map(p => p.text || '').join('')
RECURSIVE JoinTexts(_)
JoinTexts(parts) ==
    IF Len(parts) = 0 THEN <<>> ELSE parts[1] \o JoinTexts(Tail(parts))

\* the lines of the sources: "[index + 1] [title](uri)" for the chunks of
\* the web, joined by line feeds
RECURSIVE SourceLines(_, _)
SourceLines(chunks, i) ==
    IF i > Len(chunks) THEN <<>>
    ELSE IF ~HasField(chunks[i], "web") THEN SourceLines(chunks, i + 1)
    ELSE LET line == <<"[">> \o NumberToString(i) \o <<"]", " ", "[">>
                         \o chunks[i].web.title \o <<"]", "(">>
                         \o chunks[i].web.uri \o <<")">>
             rest == SourceLines(chunks, i + 1)
         IN  IF Len(rest) = 0 THEN line ELSE line \o <<"\n">> \o rest

\* s holds the characters of p somewhere
Includes(s, p) == \E i \in 1..(Len(s) + 1) : HasAt(s, i, p)

\* the try block: the value returned or the value thrown
TryBlock(key, userMessage, image, reply) ==
    IF ~key THEN [threw |-> TRUE, error |-> ErrorOf(MsgNoKey)]
    ELSE IF Len(CurrentParts(userMessage, image)) = 0
    THEN [threw |-> TRUE, error |-> ErrorOf(MsgEmptyMessage)]
    ELSE IF reply.kind = "throw" THEN [threw |-> TRUE, error |-> reply.error]
    ELSE IF reply.finishReason = "SAFETY"
    THEN [threw |-> TRUE, error |-> ErrorOf(MsgSafety)]
    ELSE IF reply.finishReason = "RECITATION"
    THEN [threw |-> TRUE, error |-> ErrorOf(<<"r", "e", "c", "i", "t", "a", "t", "i", "o", "n">>)]
    ELSE LET responseText == IF Len(reply.text) = 0 /\ Len(reply.parts) > 0
                             THEN JoinTexts(reply.parts)
                             ELSE reply.text
             sources == SourceLines(reply.chunks, 1)
         IN  IF Len(responseText) = 0
             THEN [threw |-> TRUE, error |-> ErrorOf(<<"e", "m", "p", "t", "y", " ", "r", "e", "s", "p", "o", "n", "s", "e">>)]
             ELSE [threw |-> FALSE,
                   value |-> IF Len(sources) > 0
                             THEN responseText \o <<"\n", "\n", "-", "-", "-", "\n", "S", ":", "\n">> \o sources
                             ELSE responseText]

\* a variant without the catch block: what is thrown rejects the promise
sendMessageToGeminiNoCatch(key, userMessage, image, reply) ==
    LET try == TryBlock(key, userMessage, image, reply)
    IN  IF ~try.threw THEN [status |-> "fulfilled", value |-> try.value]
        ELSE [status |-> "rejected", reason |-> try.error]

\* sendMessageToGemini: how its promise settles
sendMessageToGemini(key, userMessage, image, reply) ==
    LET try == TryBlock(key, userMessage, image, reply)
    IN  IF ~try.threw THEN [status |-> "fulfilled", value |-> try.value]
        ELSE LET errorMessage == IF try.error.isError THEN try.error.message
                                 ELSE UnknownError
             IN  [status |-> "fulfilled",
                  value |-> IF Includes(errorMessage, <<"4", "2", "9">>)
                            THEN RateLimitText
                            ELSE ErrorPrefix \o errorMessage]

\* currentHistory.map(...): role, text and image of every message
HistoryForApi(ms) ==
    [i \in 1..Len(ms) |->
        [role |-> IF ms[i].role = RoleUser THEN "user" ELSE "model",
         text |-> ms[i].text,
         image |-> IF HasField(ms[i], "image") THEN ms[i].image ELSE Undefined]]

\* the message of the model
AiMsg(n, responseText) == [id |-> n + 1, role |-> RoleModel, text |-> responseText]

\* the rest of processGeminiRequest after its await, for a transcript ms, a
\* toast t and n ids drawn
AfterAwait(call, reply, result, ms, t, n) ==
    /\ IF result.status = "fulfilled"
       THEN /\ messages' = Append(ms, AiMsg(n, result.value))
            /\ nextId' = n + 1
            /\ toast' = t
            /\ toastTimers' = toastTimers
       ELSE /\ messages' = ms
            /\ nextId' = n
            /\ toast' = "error"
            /\ toastTimers' = toastTimers + 1
    /\ isLoading' = FALSE
    /\ settled' = <<[call |-> call.call,
                      userText |-> call.userText,
                      image |-> call.image,
                      reply |-> reply,
                      result |-> result]>>

\* processGeminiRequest, called by a handler that leaves the transcript ms,
\* of which its render shows the transcript shown, the toast t and n ids
\* drawn.  A call that gets as far as chat.sendMessage waits for the
\* backend; any other call settles before the handler's event is over.
ProcessGeminiRequest(userText, image, currentHistory, ms, shown, t, n) ==
    LET call == [call |-> sent + 1,
                 userText |-> userText,
                 image |-> image,
                 history |-> HistoryForApi(currentHistory),
                 chatHistory |-> IF apiKey
                                 THEN <<pruneHistory(FormattedHistory(
                                            HistoryForApi(currentHistory)))>>
                                 ELSE <<>>]
    IN  /\ sent' = sent + 1
        /\ lastCall' = <<call>>
        /\ IF ReachesBackend(apiKey, userText, image)
           THEN /\ isLoading' = TRUE
                /\ requests' = requests \cup {call}
                /\ messages' = ms
                /\ toast' = t
                /\ nextId' = n
                /\ rendered' = [messages |-> shown, isLoading |-> TRUE]
                /\ UNCHANGED <<settled, toastTimers>>
           ELSE \E result \in {sendMessageToGemini(apiKey, userText, image, ReplyOk)} :
                /\ AfterAwait(call, ReplyOk, result, ms, t, n)
                /\ rendered' =
                       [messages |-> IF result.status = "fulfilled"
                                     THEN Append(shown, AiMsg(n, result.value))
                                     ELSE shown,
                        isLoading |-> FALSE]
                /\ UNCHANGED requests

\* handleSendMessage: the history is the transcript of its closure, the
\* message is appended to the transcript as it is
HandleSendMessage(text, image) ==
    /\ sent < MaxSends
    /\ regenerated' = FALSE
    /\ LET userMsg == [id |-> nextId + 1,
                       role |-> RoleUser,
                       text |-> text,
                       image |-> IF image = Null THEN Undefined ELSE image]
       IN  ProcessGeminiRequest(text, image, rendered.messages,
                                Append(messages, userMsg),
                                Append(rendered.messages, userMsg),
                                Null, nextId + 1)

\* handleSend of the input area (button or Enter)
InputSend(text, image) ==
    /\ ~isUploadModalOpen
    /\ (trim(text) # <<>> \/ image # Null) /\ ~rendered.isLoading
    /\ HandleSendMessage(text, image)
    /\ UNCHANGED <<builderVars, viewVars, legacyVars, modalVars, apiKey>>

\* handleExampleChipClick: the chips are shown while the transcript is empty
ExampleChipClick(ex) ==
    /\ ~isUploadModalOpen
    /\ Len(rendered.messages) = 0
    /\ IF ex.id = "red-team"
       THEN /\ pendingExamplePrompt' = ex.prompt
            /\ modalImage' = Null
            /\ isUploadModalOpen' = TRUE
            /\ regenerated' = FALSE
            /\ UNCHANGED <<messages, isLoading, toast, requests, sent, nextId,
                           rendered, lastCall, settled, toastTimers>>
       ELSE /\ HandleSendMessage(ex.prompt, Null)
            /\ UNCHANGED modalVars
    /\ UNCHANGED <<builderVars, viewVars, legacyVars, apiKey>>

\* an image is picked, dropped or pasted in the upload modal
ModalPickImage(image) ==
    /\ isUploadModalOpen
    /\ modalImage' = image
    /\ regenerated' = FALSE
    /\ UNCHANGED <<builderVars, viewVars, legacyVars, messages, isLoading, toast,
                   requests, sent, nextId, isUploadModalOpen, pendingExamplePrompt,
                   apiKey, rendered, lastCall, settled, toastTimers>>

\* handleModalClose
ModalClose ==
    /\ isUploadModalOpen
    /\ isUploadModalOpen' = FALSE
    /\ pendingExamplePrompt' = Null
    /\ modalImage' = Null
    /\ regenerated' = FALSE
    /\ UNCHANGED <<builderVars, viewVars, legacyVars, messages, isLoading, toast,
                   requests, sent, nextId, apiKey, rendered, lastCall, settled,
                   toastTimers>>

\* handleModalSend
ModalSend ==
    /\ isUploadModalOpen
    /\ pendingExamplePrompt # Null
    /\ HandleSendMessage(pendingExamplePrompt, modalImage)
    /\ isUploadModalOpen' = FALSE
    /\ pendingExamplePrompt' = Null
    /\ modalImage' = Null
    /\ UNCHANGED <<builderVars, viewVars, legacyVars, apiKey>>

\* handleRegenerate: the button is shown under the last message if it is of
\* the model and nothing is loading; the handler reads the transcript and
\* the loading flag of its closure
Regenerate ==
    /\ ~isUploadModalOpen
    /\ Len(rendered.messages) > 0
    /\ rendered.messages[Len(rendered.messages)].role = RoleModel
    /\ ~rendered.isLoading
    /\ regenerated' = TRUE
    /\ IF /\ ~(Len(rendered.messages) < 2 \/ rendered.isLoading)
          /\ rendered.messages[Len(rendered.messages)].role = RoleModel
          /\ rendered.messages[Len(rendered.messages) - 1].role = RoleUser
       THEN /\ sent < MaxSends
            /\ LET ms == rendered.messages
                   lastUserMsg == ms[Len(ms) - 1]
                   newMessages == SubSeq(ms, 1, Len(ms) - 1)
               IN  ProcessGeminiRequest(
                       lastUserMsg.text,
                       IF lastUserMsg.image = Undefined THEN Null ELSE lastUserMsg.image,
                       SubSeq(newMessages, 1, Len(newMessages) - 1),
                       newMessages, newMessages, toast, nextId)
       ELSE UNCHANGED <<messages, isLoading, toast, requests, sent, nextId,
                        rendered, lastCall, settled, toastTimers>>
    /\ UNCHANGED <<builderVars, viewVars, legacyVars, modalVars, apiKey>>

\* handleClearChat with the confirmation accepted: the button of the header
\* is shown while the transcript is not empty
ClearChat ==
    /\ ~isUploadModalOpen
    /\ Len(rendered.messages) > 0
    /\ messages' = <<>>
    /\ toast' = Null
    /\ rendered' = [rendered EXCEPT !.messages = <<>>]
    /\ regenerated' = FALSE
    /\ UNCHANGED <<builderVars, viewVars, legacyVars, isLoading, requests, sent,
                   nextId, modalVars, apiKey, lastCall, settled, toastTimers>>

\* the backend replies to a call: sendMessageToGemini goes on after its
\* await and settles, and so does processGeminiRequest.  What it sets is
\* rendered later.
Respond(r, reply) ==
    /\ r \in requests
    /\ \E result \in {sendMessageToGemini(apiKey, r.userText, r.image, reply)} :
           AfterAwait(r, reply, result, messages, toast, nextId)
    /\ requests' = requests \ {r}
    /\ regenerated' = FALSE
    /\ UNCHANGED <<builderVars, viewVars, legacyVars, sent, modalVars, apiKey,
                   rendered, lastCall>>

\* the component is rendered with what was set outside the handlers
Render ==
    /\ rendered # [messages |-> messages, isLoading |-> isLoading]
    /\ rendered' = [messages |-> messages, isLoading |-> isLoading]
    /\ regenerated' = FALSE
    /\ UNCHANGED <<builderVars, viewVars, legacyVars, messages, isLoading, toast,
                   requests, sent, nextId, modalVars, apiKey, lastCall, settled,
                   toastTimers>>

\* onCopy of the last message: the button is shown under the last message if
\* it is of the model and nothing is loading
CopyMessage ==
    /\ ~isUploadModalOpen
    /\ Len(rendered.messages) > 0
    /\ rendered.messages[Len(rendered.messages)].role = RoleModel
    /\ ~rendered.isLoading
    /\ toastTimers < MaxToasts
    /\ clipboard' = rendered.messages[Len(rendered.messages)].text
    /\ toast' = "success"
    /\ toastTimers' = toastTimers + 1
    /\ regenerated' = FALSE
    /\ UNCHANGED <<builderVars, legacyVars, current, viewMode, zoomLevel,
                   copyFeedback, timers, scene, effectDeps, messages, isLoading,
                   requests, sent, nextId, modalVars, apiKey, rendered, lastCall,
                   settled>>

\* the callback of the setTimeout of showToast
ToastTimeout ==
    /\ toastTimers > 0
    /\ toast' = Null
    /\ toastTimers' = toastTimers - 1
    /\ regenerated' = FALSE
    /\ UNCHANGED <<builderVars, viewVars, legacyVars, messages, isLoading,
                   requests, sent, nextId, modalVars, apiKey, rendered, lastCall,
                   settled>>

\* the steps of the chat for the texts typed, the images attached and the
\* replies of the backend
ChatStep(texts, images, replies) ==
    \/ \E text \in texts, image \in images : InputSend(text, image)
    \/ \E ex \in EXAMPLES : ExampleChipClick(ex)
    \/ \E image \in images \ {Null} : ModalPickImage(image)
    \/ ModalClose
    \/ ModalSend
    \/ Regenerate
    \/ ClearChat
    \/ \E r \in requests, reply \in replies : Respond(r, reply)
    \/ Render

NextChat == ChatStep(TypedTexts, Attachments, {ReplyOk, FailNetwork})

\* the chat before the visualizer is opened
InitChat == InitWith({}, Inputs)

SpecChat == InitChat /\ [][NextChat]_vars

(***************************************************************************)
(* One call of the service from a chat that has been going on: the         *)
(* transcripts are those of earlier exchanges, with every kind of text and *)
(* image a message can hold, also longer than the backend is given.        *)
(***************************************************************************)
\* the transcript after k exchanges: each message of the user has a text
\* that is not blank or an image, no message of the model is empty
Transcript(k) ==
    LET userVariants ==
            <<[text |-> <<"h", "i">>, image |-> Undefined],
              [text |-> <<"h", "i">>, image |-> ImageData],
              [text |-> <<" ">>, image |-> ImageData],
              [text |-> <<" ">>, image |-> ImageSvg],
              [text |-> <<>>, image |-> ImageSvg],
              [text |-> <<"h", "i">>, image |-> ImageSvg],
              [text |-> <<>>, image |-> ImageData]>>
        modelVariants == <<AnswerText, <<" ">>, ErrorPrefix \o MsgEmptyMessage>>
    IN  [i \in 1..(2 * k) |->
            IF i % 2 = 1
            THEN LET v == userVariants[(((i - 1) \div 2) % Len(userVariants)) + 1]
                 IN  [id |-> i, role |-> RoleUser, text |-> v.text, image |-> v.image]
            ELSE AiMsg(i - 1,
                       modelVariants[(((i - 1) \div 2) % Len(modelVariants)) + 1])]

\* the calls that led to the transcript are not followed; one more call is
InitService ==
    InitAll({}, Inputs, BOOLEAN,
            {Transcript(k) : k \in {0, 1, MaxPairs - 1, MaxPairs}}, MaxSends - 1)

NextService ==
    \/ ChatStep({<<"h", "i">>, <<" ">>, <<>>}, {Null, ImageData, ImageSvg},
                BackendReplies)
    \/ CopyMessage
    \/ ToastTimeout

SpecService == InitService /\ [][NextService]_vars

(***************************************************************************)
(* The older builder, parseMarkdownToTree, translated on its own: the      *)
(* split at the separator, the pattern tried with backtracking, the pop    *)
(* loop on the shrinking stack, the cleanup pass.  It allocates in a heap  *)
(* of its own, so that its states can be set beside those of the memo.     *)
(***************************************************************************)
\* the index of the first sep in s at or after i, 0 if there is none
RECURSIVE IndexOf(_, _, _)
IndexOf(s, sep, i) ==
    IF i > Len(s) THEN 0
    ELSE IF s[i] = sep THEN i
    ELSE IndexOf(s, sep, i + 1)

\* md.split(sep) for a separator of one character
RECURSIVE Split(_, _)
Split(md, sep) ==
    LET i == IndexOf(md, sep, 1)
    IN  IF i = 0 THEN <<md>>
        ELSE <<SubSeq(md, 1, i - 1)>> \o Split(SubSeq(md, i + 1, Len(md)), sep)

\* the number of characters of the class cls at the start of s
RECURSIVE Prefix(_, _)
Prefix(s, cls) ==
    IF Len(s) > 0 /\ s[1] \in cls THEN 1 + Prefix(Tail(s), cls) ELSE 0

\* the pattern with k characters given to #{1,6}: \s+ takes the longest
\* run of whitespace and (.*) goes on to the first line terminator; with
\* no whitespace after the k characters the pattern is tried with k - 1
RECURSIVE MatchWith(_, _)
MatchWith(line, k) ==
    IF k = 0 THEN [matched |-> FALSE]
    ELSE LET rest == SubSeq(line, k + 1, Len(line))
             w == Prefix(rest, Whitespace)
             text == SubSeq(rest, w + 1, Len(rest))
         IN  IF w = 0 THEN MatchWith(line, k - 1)
             ELSE [matched |-> TRUE,
                   g1 |-> SubSeq(line, 1, k),
                   g2 |-> SubSeq(text, 1, Prefix(text, Chars(text) \ LineTerminator))]

\* line.match(/^(#{1,6})\s+(.*)/) of parseMarkdownToTree: #{1,6} is greedy
\* and starts with as many '#' as there are, six at most
LegacyMatch(line) ==
    LET hashes == Prefix(line, {"#"})
    IN  MatchWith(line, IF hashes > 6 THEN 6 ELSE hashes)

\* a variant of the pop loop of parseMarkdownToTree with > in place of >=
RECURSIVE LegacyPopGreater(_, _)
LegacyPopGreater(s, level) ==
    IF Len(s) > 0 /\ s[Len(s)].level > level
    THEN LegacyPopGreater(SubSeq(s, 1, Len(s) - 1), level)
    ELSE s

\* the pop loop of parseMarkdownToTree
RECURSIVE LegacyPop(_, _)
LegacyPop(s, level) ==
    IF Len(s) > 0 /\ s[Len(s)].level >= level
    THEN LegacyPop(SubSeq(s, 1, Len(s) - 1), level)
    ELSE s

\* the forEach callback of parseMarkdownToTree
LegacyCallback(h, s, line) ==
    LET headerMatch == LegacyMatch(line)
    IN  IF ~headerMatch.matched THEN [heap |-> h, stack |-> s]
        ELSE LET level == Len(headerMatch.g1)
                 text == trim(headerMatch.g2)
                 newNode == Len(h) + 1
                 s1 == LegacyPop(s, level)
                 h1 == Append(h, [name |-> text, children |-> <<>>])
                 h2 == IF Len(s1) = 0 THEN h1
                       ELSE LET parent == s1[Len(s1)].node
                                ch == IF "children" \in DOMAIN h1[parent]
                                      THEN h1[parent].children
                                      ELSE <<>>
                            IN  [h1 EXCEPT ![parent] =
                                    [f \in DOMAIN @ \cup {"children"} |->
                                        IF f = "children" THEN ch \o <<newNode>>
                                        ELSE @[f]]]
             IN  [heap |-> h2,
                  stack |-> s1 \o <<[node |-> newNode, level |-> level]>>]

\* cleanTree of parseMarkdownToTree, applied to the nodes of the list ns
\* one after the other
RECURSIVE LegacyClean(_, _)
LegacyClean(h, ns) ==
    IF Len(ns) = 0 THEN h
    ELSE LET node == ns[1]
             h1 == IF "children" \notin DOMAIN h[node] THEN h
                   ELSE IF Len(h[node].children) = 0
                   THEN [h EXCEPT ![node] = [name |-> @.name, value |-> 1]]
                   ELSE LegacyClean(h, h[node].children)
         IN  LegacyClean(h1, Tail(ns))

\* parseMarkdownToTree is called with the markdown prop
LegacyStart ==
    /\ legacyPc = "idle"
    /\ 1 \in Invocations
    /\ legacyLines' = Split(markdown[1], "\n")
    /\ legacyHeap' = <<[name |-> RootName, children |-> <<>>]>>
    /\ legacyRoot' = 1
    /\ legacyStack' = <<[node |-> 1, level |-> 0]>>
    /\ legacyIdx' = 1
    /\ legacyPc' = "loop"
    /\ UNCHANGED <<builderVars, viewVars, chatVars, legacyData>>

\* one call of its forEach callback
LegacyLine ==
    /\ legacyPc = "loop"
    /\ legacyIdx <= Len(legacyLines)
    /\ \E r \in {LegacyCallback(legacyHeap, legacyStack, legacyLines[legacyIdx])} :
           /\ legacyHeap' = r.heap
           /\ legacyStack' = r.stack
    /\ legacyIdx' = legacyIdx + 1
    /\ UNCHANGED <<builderVars, viewVars, chatVars, legacyPc, legacyLines,
                   legacyRoot, legacyData>>

\* cleanTree(root); return root
LegacyFinish ==
    /\ legacyPc = "loop"
    /\ legacyIdx > Len(legacyLines)
    /\ legacyHeap' = LegacyClean(legacyHeap, <<legacyRoot>>)
    /\ legacyData' = legacyRoot
    /\ legacyPc' = "done"
    /\ UNCHANGED <<builderVars, viewVars, chatVars, legacyLines, legacyIdx,
                   legacyRoot, legacyStack>>

NextPair ==
    \/ Start(1)
    \/ ProcessLine(1)
    \/ Finish(1)
    \/ LegacyStart
    \/ LegacyLine
    \/ LegacyFinish

\* the two implementations before either runs, on the same input
InitPair == InitWith({1}, PairInputs)

SpecPair == InitPair /\ [][NextPair]_vars

(***************************************************************************)
(* C1: the node of a heading of level L is a child of the nearest          *)
(* preceding node (heading node or root) whose level is strictly less than *)
(* L, and of no other node; a node of equal or greater level is never its  *)
(* parent.                                                                 *)
(***************************************************************************)
\* the nodes that precede n in the document and have a smaller level
Ancestors(c, n) ==
    {p \in NodesOf(c) : /\ origin[p].line < origin[n].line
                        /\ origin[p].level < origin[n].level}

Nearest(c, n) ==
    CHOOSE p \in Ancestors(c, n) :
        \A q \in Ancestors(c, n) : origin[q].line <= origin[p].line

ParentIsNearestLower ==
    \A c \in Invocations : \A n \in HeadingNodes(c) :
        /\ Ancestors(c, n) # {}
        /\ ParentsOf(heap, n) = {Nearest(c, n)}

\* a node whose parent is not the node created just before it: nodes of
\* equal or greater level lie between the two
WitnessParentIsNearestLower ==
    \E c \in Invocations : \E n \in HeadingNodes(c) :
        /\ Done(c)
        /\ \E p \in ParentsOf(heap, n) : \E m \in HeadingNodes(c) :
              /\ origin[p].line < origin[m].line
              /\ origin[m].line < origin[n].line
              /\ origin[m].level >= origin[n].level
              /\ origin[p].line > 0

(***************************************************************************)
(* C2: in a returned tree every node, the root included, has either a      *)
(* non-empty children array and no value, or no children array and the     *)
(* value 1.                                                                *)
(***************************************************************************)
IsBranch(o) ==
    /\ HasField(o, "children")
    /\ Len(o.children) > 0
    /\ ~HasField(o, "value")

IsLeaf(o) ==
    /\ ~HasField(o, "children")
    /\ HasField(o, "value")
    /\ o.value = 1

ChildrenXorValue ==
    \A c \in Invocations :
        Done(c) => \A n \in TreeNodes(heap, treeData[c]) :
                       IsBranch(heap[n]) # IsLeaf(heap[n])

\* a returned tree with a branch below the root, a leaf that is not the
\* last child of its parent and a leaf at depth 3
WitnessChildrenXorValue ==
    \E c \in Invocations :
        /\ Done(c)
        /\ \E n \in TreeNodes(heap, treeData[c]) \ {treeData[c]} : IsBranch(heap[n])
        /\ \E n \in TreeNodes(heap, treeData[c]) :
              /\ IsLeaf(heap[n])
              /\ \E p \in ParentsOf(heap, n) :
                    ChildIndex(heap, p, n) < Len(Children(heap, p))
        /\ \E n \in TreeNodes(heap, treeData[c]) :
              IsLeaf(heap[n]) /\ Depth(heap, n) = 3

(***************************************************************************)
(* C3: the returned tree is deep-equal to the tree built from the input    *)
(* with all its non-heading lines removed.                                 *)
(***************************************************************************)
NonHeadingLinesIgnored ==
    \A c \in Invocations :
        Done(c) => ToTree(heap, treeData[c]) = Build(HeadingsOnly(markdown[c]))

\* a returned tree with two nodes whose input has body text before, between
\* and after the two headings
WitnessNonHeadingLinesIgnored ==
    \E c \in Invocations :
        /\ Done(c)
        /\ Len(lines[c]) = 4
        /\ ~IsHeading(lines[c][1])
        /\ IsHeading(lines[c][2])
        /\ ~IsHeading(lines[c][3])
        /\ IsHeading(lines[c][4])
        /\ markdown[c] # HeadingsOnly(markdown[c])

(***************************************************************************)
(* C4: the children of every node are in the order of their heading lines: *)
(* a step either leaves a children array as it is or appends the node it   *)
(* has just created; no child is ever moved or removed.                    *)
(***************************************************************************)
ChildrenSorted ==
    \A p \in DOMAIN heap : \A i, j \in 1..Len(Children(heap, p)) :
        i < j => origin[Children(heap, p)[i]].line < origin[Children(heap, p)[j]].line

AppendOnly ==
    \A p \in DOMAIN heap :
        \/ Children(heap', p) = Children(heap, p)
        \/ /\ Len(heap') = Len(heap) + 1
           /\ Children(heap', p) = Append(Children(heap, p), Len(heap'))

ChildrenInDocumentOrder == [][AppendOnly /\ ChildrenSorted']_vars

\* a returned tree where a node has two children whose heading lines are
\* not adjacent: a deeper heading lies between them
WitnessChildrenInDocumentOrder ==
    \E c \in Invocations : \E p \in NodesOf(c) :
        /\ Done(c)
        /\ Len(Children(heap, p)) >= 2
        /\ Children(heap, p)[2] > Children(heap, p)[1] + 1

(***************************************************************************)
(* C5: for an input without any heading line, the empty string included,   *)
(* the builder returns the single node {name: "System Prompt", value: 1}.  *)
(***************************************************************************)
NoHeadingGivesLeafRoot ==
    \A c \in Invocations :
        (Done(c) /\ \A i \in 1..Len(lines[c]) : ~IsHeading(lines[c][i]))
            => ToTree(heap, treeData[c]) = [name |-> RootName, value |-> 1]

\* the builder has returned for the empty string
WitnessNoHeadingGivesLeafRoot ==
    \E c \in Invocations :
        /\ Done(c)
        /\ markdown[c] = <<>>
        /\ lines[c] = <<LineEmpty>>

(***************************************************************************)
(* C6: two headings of the same level with no heading of a smaller level   *)
(* between them have the same parent, the earlier one before the later one *)
(* among its children.                                                     *)
(***************************************************************************)
\* the heading nodes created between n and m
Between(c, n, m) ==
    {k \in HeadingNodes(c) : origin[n].line < origin[k].line
                             /\ origin[k].line < origin[m].line}

SameLevelSiblings ==
    \A c \in Invocations : \A n, m \in HeadingNodes(c) :
        (/\ origin[n].line < origin[m].line
         /\ origin[n].level = origin[m].level
         /\ \A k \in Between(c, n, m) : origin[k].level >= origin[n].level)
        => /\ ParentsOf(heap, n) = ParentsOf(heap, m)
           /\ \E p \in DOMAIN heap :
                 /\ ParentsOf(heap, n) = {p}
                 /\ ChildIndex(heap, p, n) < ChildIndex(heap, p, m)

\* two siblings below a heading with a chain of two deeper headings between
\* them
WitnessSameLevelSiblings ==
    \E c \in Invocations : \E n, m \in HeadingNodes(c) :
        /\ Done(c)
        /\ origin[n].level = origin[m].level
        /\ ParentsOf(heap, n) = ParentsOf(heap, m)
        /\ ParentsOf(heap, n) # {root[c]}
        /\ \E k \in Between(c, n, m) : origin[k].level > origin[n].level

(***************************************************************************)
(* C7: a heading whose level is greater than the level of the heading just *)
(* before it is a child of that heading, whatever the gap; every heading   *)
(* line creates one node and no node is created for a skipped level.       *)
(***************************************************************************)
\* the heading nodes created before n
Before(c, n) == {k \in HeadingNodes(c) : origin[k].line < origin[n].line}

Previous(c, n) ==
    CHOOSE q \in Before(c, n) : \A k \in Before(c, n) : origin[k].line <= origin[q].line

DeeperHeadingUnderPrevious ==
    \A c \in Invocations :
        /\ \A n \in HeadingNodes(c) :
              (Before(c, n) # {} /\ origin[Previous(c, n)].level < origin[n].level)
                  => ParentsOf(heap, n) = {Previous(c, n)}
        /\ \A n, m \in NodesOf(c) : origin[n].line = origin[m].line => n = m
        /\ \A n \in HeadingNodes(c) : IsHeading(lines[c][origin[n].line])

\* a level 3 heading right after a level 1 heading: its node is at depth 2
WitnessDeeperHeadingUnderPrevious ==
    \E c \in Invocations : \E n \in HeadingNodes(c) :
        /\ Done(c)
        /\ Before(c, n) # {}
        /\ origin[n].level >= origin[Previous(c, n)].level + 2
        /\ Depth(heap, n) < origin[n].level

(***************************************************************************)
(* C8: the pop loop never empties the stack, its bottom entry is always    *)
(* the root, and the returned tree has one node per heading line besides   *)
(* the root.                                                               *)
(***************************************************************************)
HeadingLines(c) == SelectSeq(lines[c], IsHeading)

RootNeverPopped ==
    \A c \in Invocations :
        /\ Started(c) => /\ Len(stack[c]) >= 1
                         /\ stack[c][1].node = root[c]
        /\ (pc[c] = "loop" /\ idx[c] <= Len(lines[c]) /\ IsHeading(lines[c][idx[c]]))
              => Len(PopWhile(stack[c], Len(HeaderMatch(lines[c][idx[c]]).g1))) > 0
        /\ \A n \in HeadingNodes(c) : ParentsOf(heap, n) # {}
        /\ Done(c) => Cardinality(TreeNodes(heap, treeData[c])) = 1 + Len(HeadingLines(c))

\* four heading lines, the last one back at level 1 after deeper ones: the
\* pop loop has popped everything but the root
WitnessRootNeverPopped ==
    \E c \in Invocations :
        /\ Done(c)
        /\ Len(HeadingLines(c)) = 4
        /\ Len(stack[c]) = 2
        /\ stack[c][2].level = 1
        /\ \E n \in HeadingNodes(c) : origin[n].level = 3

(***************************************************************************)
(* C9: every parse has exactly one root: named "System Prompt", at level   *)
(* 0, not created from a line, no child of any node, and returned; the     *)
(* node of a heading on the first line is a child of it.                   *)
(***************************************************************************)
SingleFixedRoot ==
    \A c \in Invocations :
        Started(c) =>
            /\ root[c] \in DOMAIN heap
            /\ heap[root[c]].name = RootName
            /\ stack[c][1] = [node |-> root[c], level |-> 0]
            /\ origin[root[c]].line = 0
            /\ {n \in NodesOf(c) : ParentsOf(heap, n) = {}} = {root[c]}
            /\ \A n \in HeadingNodes(c) :
                  origin[n].line = 1 => ParentsOf(heap, n) = {root[c]}
            /\ Done(c) => treeData[c] = root[c]

\* the first line is a heading and the returned root has two children
WitnessSingleFixedRoot ==
    \E c \in Invocations :
        /\ Done(c)
        /\ IsHeading(lines[c][1])
        /\ Len(Children(heap, treeData[c])) >= 2
        /\ \E n \in HeadingNodes(c) : origin[n].line = 1

(***************************************************************************)
(* C10: the builder never throws and always returns a tree, whatever the   *)
(* input.                                                                  *)
(***************************************************************************)
Total ==
    /\ [](\A c \in Invocations : pc[c] # "error")
    /\ <>(\A c \in Invocations : Done(c) /\ treeData[c] \in DOMAIN heap)

\* the builder has returned for an input made of a whitespace-only line, a
\* '#' without whitespace and a line of seven '#'
WitnessTotal ==
    \E c \in Invocations :
        /\ Done(c)
        /\ LineBlank \in Chars(lines[c])
        /\ LineNoSpace \in Chars(lines[c])
        /\ LineSeven \in Chars(lines[c])

(***************************************************************************)
(* C11: two invocations on the same string return deep-equal trees, in     *)
(* whatever order their steps are taken.                                   *)
(***************************************************************************)
Deterministic ==
    \A c, d \in Invocations :
        (Done(c) /\ Done(d) /\ markdown[c] = markdown[d])
            => ToTree(heap, treeData[c]) = ToTree(heap, treeData[d])

\* two invocations have returned for the same string with two headings, the
\* second one having started after the first one returned
WitnessDeterministic ==
    /\ Invocations = {1, 2}
    /\ Done(1) /\ Done(2)
    /\ markdown[1] = markdown[2]
    /\ Len(HeadingLines(1)) = 2
    /\ \A n \in NodesOf(1) : n < root[2]

(***************************************************************************)
(* C15: interleaved invocations do not affect each other: each has a root  *)
(* and a stack of objects it allocated itself, the returned trees share no *)
(* node, and each returned tree is the tree of its input built alone.      *)
(***************************************************************************)
Independent ==
    \A c \in Invocations :
        /\ Started(c) => /\ root[c] \in NodesOf(c)
                         /\ \A i \in 1..Len(stack[c]) : stack[c][i].node \in NodesOf(c)
        /\ Done(c) => /\ TreeNodes(heap, treeData[c]) \subseteq NodesOf(c)
                      /\ ToTree(heap, treeData[c]) = Build(markdown[c])
        /\ \A d \in Invocations \ {c} :
              (Done(c) /\ Done(d)) =>
                  TreeNodes(heap, treeData[c]) \cap TreeNodes(heap, treeData[d]) = {}

\* both invocations have returned and their objects alternate in the heap:
\* the steps were interleaved
WitnessIndependent ==
    /\ Invocations = {1, 2}
    /\ Done(1) /\ Done(2)
    /\ markdown[1] # markdown[2]
    /\ \E n1, n2 \in NodesOf(1) : \E m1, m2 \in NodesOf(2) :
          n1 < m1 /\ m1 < n2 /\ n2 < m2

(***************************************************************************)
(* C12: a line creates a node exactly when it starts with one to six '#'   *)
(* immediately followed by a whitespace character, and the node's level is *)
(* the number of leading '#'; seven or more '#', no whitespace after the   *)
(* '#', or anything before the first '#' creates no node.                  *)
(***************************************************************************)
LeadingHashes(line) == Run(line, 1, {"#"})

StartsLikeHeading(line) ==
    /\ LeadingHashes(line) \in 1..6
    /\ LeadingHashes(line) < Len(line)
    /\ line[LeadingHashes(line) + 1] \in Whitespace

\* the nodes the invocation c created for its line i
NodesOfLine(c, i) == {n \in HeadingNodes(c) : origin[n].line = i}

HeadingExactlyOneToSixHashes ==
    \A c \in Invocations : Started(c) =>
        \A i \in 1..(idx[c] - 1) :
            /\ StartsLikeHeading(lines[c][i]) <=> NodesOfLine(c, i) # {}
            /\ Cardinality(NodesOfLine(c, i)) <= 1
            /\ \A n \in NodesOfLine(c, i) :
                  /\ origin[n].level = LeadingHashes(lines[c][i])
                  /\ origin[n].level \in 1..6

\* a line of six '#' has created a node of level 6 and a line of seven '#'
\* has created none
WitnessHeadingExactlyOneToSixHashes ==
    /\ Done(1)
    /\ \E i, j \in 1..Len(lines[1]) :
          /\ lines[1][i] = LineSix
          /\ \E n \in NodesOfLine(1, i) : origin[n].level = 6
          /\ lines[1][j] = LineSeven
          /\ NodesOfLine(1, j) = {}

(***************************************************************************)
(* C17: the name of every node but the root is the rest of its heading     *)
(* line after the '#' marker and the whitespace that follows it, trimmed;  *)
(* the name of the root is the fixed label.                                *)
(***************************************************************************)
\* the line without its marker and the whitespace after the marker
AfterMarker(line) ==
    SubSeq(line,
           LeadingHashes(line) + Run(line, LeadingHashes(line) + 1, Whitespace) + 1,
           Len(line))

NameIsTrimmedRest ==
    \A c \in Invocations : Started(c) =>
        /\ heap[root[c]].name = RootName
        /\ \A n \in HeadingNodes(c) :
              heap[n].name = trim(AfterMarker(lines[c][origin[n].line]))

(***************************************************************************)
(* C13: in every state of the parse the nodes form a strict ownership      *)
(* tree: every node but the root is held once, by the children array of    *)
(* exactly one node, the root is held by none, every node is below the     *)
(* root and no node is below itself.                                       *)
(***************************************************************************)
\* the number of times the children array of p holds n
Occurrences(h, p, n) ==
    Cardinality({i \in 1..Len(Children(h, p)) : Children(h, p)[i] = n})

\* the nodes reached from the set S by at most k steps along children arrays
RECURSIVE ReachIn(_, _, _)
ReachIn(h, S, k) ==
    IF k = 0 THEN S
    ELSE ReachIn(h,
                 S \cup UNION {{Children(h, p)[i] : i \in 1..Len(Children(h, p))} : p \in S},
                 k - 1)

\* the nodes strictly below n
Below(h, n) ==
    ReachIn(h, {Children(h, n)[i] : i \in 1..Len(Children(h, n))}, Len(h))

OwnershipTree ==
    \A c \in Invocations : Started(c) =>
        /\ ParentsOf(heap, root[c]) = {}
        /\ \A n \in HeadingNodes(c) :
              /\ Cardinality(ParentsOf(heap, n)) = 1
              /\ \A p \in ParentsOf(heap, n) : Occurrences(heap, p, n) = 1
              /\ n \in Below(heap, root[c])
        /\ \A n \in NodesOf(c) : n \notin Below(heap, n)

\* the parse is under way with three nodes below the root, one of them
\* below another and one attached after a pop
WitnessOwnershipTree ==
    /\ pc[1] = "loop"
    /\ Cardinality(HeadingNodes(1)) = 3
    /\ \E n \in HeadingNodes(1) : Depth(heap, n) = 2
    /\ \E n \in HeadingNodes(1) :
          /\ Depth(heap, n) = 1
          /\ \E m \in HeadingNodes(1) : m < n /\ Depth(heap, m) = 2

(***************************************************************************)
(* C14: no node lies more than 6 edges below the root, and the tree of an  *)
(* input whose headings go through the levels 1 to 6 in increasing order   *)
(* has a node 6 edges below the root.                                      *)
(***************************************************************************)
\* the levels of the heading lines of the invocation c, in document order
HeadingLevels(c) ==
    [i \in 1..Len(HeadingLines(c)) |-> LeadingHashes(HeadingLines(c)[i])]

\* six successive headings have the levels 1, 2, 3, 4, 5, 6
HasSixIncreasing(c) ==
    \E i \in 0..(Len(HeadingLevels(c)) - 6) :
        \A k \in 1..6 : HeadingLevels(c)[i + k] = k

DepthAtMostSix ==
    \A c \in Invocations : Started(c) =>
        /\ \A n \in NodesOf(c) : Depth(heap, n) <= 6
        /\ (Done(c) /\ HasSixIncreasing(c)) =>
              \E n \in TreeNodes(heap, treeData[c]) : Depth(heap, n) = 6

\* the tree of a six-level input with two more headings is returned, with
\* a node 6 edges below the root
WitnessDepthAtMostSix ==
    /\ Done(1)
    /\ HasSixIncreasing(1)
    /\ Len(HeadingLines(1)) = 8
    /\ \E n \in TreeNodes(heap, treeData[1]) : Depth(heap, n) = 6

(***************************************************************************)
(* C20: after each line the stack is the path from the root to the node    *)
(* created last: the bottom entry is the root at level 0, the node of each *)
(* other entry is a child of the node of the entry below, the levels       *)
(* increase strictly from bottom to top, so there are at most 7 entries.   *)
(***************************************************************************)
\* the node the invocation c created last
LastCreated(c) == CHOOSE n \in NodesOf(c) : \A m \in NodesOf(c) : m <= n

StackIsPath ==
    \A c \in Invocations : Started(c) =>
        /\ Len(stack[c]) >= 1
        /\ Len(stack[c]) <= 7
        /\ stack[c][1] = [node |-> root[c], level |-> 0]
        /\ \A i \in 2..Len(stack[c]) :
              /\ stack[c][i - 1].node \in ParentsOf(heap, stack[c][i].node)
              /\ stack[c][i - 1].level < stack[c][i].level
        /\ stack[c][Len(stack[c])].node = LastCreated(c)

\* the stack holds 7 entries, and later a heading of level 3 has cut it
\* down to 4
WitnessStackIsPath ==
    /\ pc[1] = "loop"
    /\ Len(stack[1]) = 4
    /\ stack[1][4].level = 3
    /\ \E n \in HeadingNodes(1) : origin[n].level = 6 /\ Depth(heap, n) = 6

(***************************************************************************)
(* C19: the pre-order traversal of the tree, the root left out, lists the  *)
(* nodes of the heading lines in the order of these lines, each with the   *)
(* text of its line.                                                       *)
(***************************************************************************)
\* the nodes of the tree below n in pre-order: a node, then the traversals
\* of its children from first to last
RECURSIVE Preorder(_, _), PreorderEach(_, _, _)
Preorder(h, n) == <<n>> \o PreorderEach(h, Children(h, n), 1)

PreorderEach(h, ch, i) ==
    IF i > Len(ch) THEN <<>>
    ELSE Preorder(h, ch[i]) \o PreorderEach(h, ch, i + 1)

\* the indices of the heading lines among the lines the invocation c has
\* been through
SeenHeadingIndices(c) ==
    {i \in 1..(idx[c] - 1) : IsHeading(lines[c][i])}

PreorderIsDocumentOrder ==
    \A c \in Invocations : Started(c) =>
        LET p == Tail(Preorder(heap, root[c]))
        IN  /\ {origin[p[k]].line : k \in 1..Len(p)} = SeenHeadingIndices(c)
            /\ \A j, k \in 1..Len(p) : j < k => origin[p[j]].line < origin[p[k]].line
            /\ \A k \in 1..Len(p) :
                  heap[p[k]].name = trim(HeaderMatch(lines[c][origin[p[k]].line]).g2)

\* a tree is returned in which a node with a child is followed by a sibling:
\* the traversal goes down before it goes on
WitnessPreorderIsDocumentOrder ==
    /\ Done(1)
    /\ LET p == Tail(Preorder(heap, treeData[1]))
       IN  /\ Len(p) = 3
           /\ Depth(heap, p[1]) = 1
           /\ Depth(heap, p[2]) = 2
           /\ Depth(heap, p[3]) = 1
           /\ heap[p[1]].name # heap[p[3]].name

(***************************************************************************)
(* C18: once the builder has returned a tree, no step changes a node of it *)
(* or the reference to it: not the view toggle, not zoom, not a click on a *)
(* node, not "Copy JSON"; the visualizer takes another tree only with      *)
(* another markdown prop, and that tree shares no node with the one before.*)
(***************************************************************************)
TreeKept(c) ==
    /\ Done(c)'
    /\ treeData'[c] = treeData[c]
    /\ \A n \in TreeNodes(heap, treeData[c]) : heap'[n] = heap[n]

TreeImmutable ==
    [][/\ \A c \in Invocations : Done(c) => TreeKept(c)
       /\ current' # current => markdown[current'] # markdown[current]
       /\ \A c, d \in Invocations :
             (c # d /\ Done(c)' /\ Done(d)') =>
                 TreeNodes(heap', treeData'[c]) \cap TreeNodes(heap', treeData'[d]) = {}]_vars

\* the tree of the first prop was copied as JSON, the prop changed, and a
\* node of the second tree, one level below its root, was clicked
WitnessTreeImmutable ==
    /\ current = 2
    /\ Done(1) /\ Done(2)
    /\ clipboard = Stringify(heap, treeData[1], 0)
    /\ scene = Hierarchy(heap, treeData[2])
    /\ Cardinality(scene) > 1
    /\ viewMode = "graph"
    /\ zoomLevel = TargetZoom(1)

(***************************************************************************)
(* C16: at most one request to the generative-AI backend is in flight at   *)
(* any time, over every interleaving of the user's actions and the         *)
(* arrivals of responses.                                                  *)
(***************************************************************************)
\* the calls that have reached the backend and have not been answered
InFlight == requests

AtMostOneRequestInFlight == Cardinality(InFlight) <= 1

(***************************************************************************)
(* C21: the memo and parseMarkdownToTree, run side by side on one input,   *)
(* have the same lines, and whenever they are at the same line they have   *)
(* the same stack and the same tree; the trees they return are deep-equal. *)
(***************************************************************************)
SameStatesLineByLine ==
    /\ (pc[1] # "idle" /\ legacyPc # "idle") => lines[1] = legacyLines
    /\ (pc[1] = legacyPc /\ idx[1] = legacyIdx /\ pc[1] # "idle") =>
          /\ stack[1] = legacyStack
          /\ root[1] = legacyRoot
          /\ heap = legacyHeap
    /\ (Done(1) /\ legacyPc = "done") =>
          ToTree(heap, treeData[1]) = ToTree(legacyHeap, legacyData)

\* both have returned, after three lines of which two are headings, the
\* second one put on the stack after a pop
WitnessSameStatesLineByLine ==
    /\ Done(1) /\ legacyPc = "done"
    /\ Len(legacyLines) = 3
    /\ Len(legacyHeap) = 3
    /\ Len(legacyStack) = 2

\* C22: in every reachable state the transcript is empty or starts with a
\* message of the user, and every message of the model comes directly after
\* a message of the user.
TranscriptWellFormed ==
    /\ Len(messages) > 0 => messages[1].role = RoleUser
    /\ \A i \in 1..Len(messages) :
           messages[i].role = RoleModel =>
               i > 1 /\ messages[i - 1].role = RoleUser

\* C23: the loading flag is set exactly while a request to the backend is
\* in flight (so that it is cleared once the request has completed).
LoadingExactlyWhileInFlight == isLoading <=> InFlight # {}

\* C25: on every send the history forwarded to the service is the
\* transcript as it is immediately before the user's new message is added.
HistoryIsTranscriptBefore ==
    [][(sent' # sent /\ ~regenerated') =>
           lastCall'[1].history = HistoryForApi(messages)]_vars

\* C26: a run of handleRegenerate leaves the transcript and the loading flag
\* as they are and makes no request unless there are at least two messages,
\* nothing is loading, the last message is of the model and the one before
\* it of the user; if so it removes the last message and no other, and sends
\* the text and the image of the user's last message again, with the
\* messages before that one as history.
RegenerateAsStated ==
    [][regenerated' =>
           LET n == Len(messages)
           IN  IF /\ n >= 2
                  /\ ~isLoading
                  /\ messages[n].role = RoleModel
                  /\ messages[n - 1].role = RoleUser
               THEN /\ sent' = sent + 1
                    /\ Len(messages') >= n - 1
                    /\ SubSeq(messages', 1, n - 1) = SubSeq(messages, 1, n - 1)
                    /\ \A i \in n..Len(messages') :
                           /\ messages'[i].role = RoleModel
                           /\ messages'[i].id > nextId
                    /\ lastCall'[1].userText = messages[n - 1].text
                    /\ lastCall'[1].image =
                           (IF messages[n - 1].image = Undefined THEN Null
                            ELSE messages[n - 1].image)
                    /\ lastCall'[1].history =
                           HistoryForApi(SubSeq(messages, 1, n - 2))
               ELSE UNCHANGED <<messages, isLoading, requests, sent>>]_vars

\* C24: sendMessageToGemini never rejects.  Whatever fails (no API key, an
\* empty message, a blocked or empty response, an error of the network or
\* of the SDK) is returned as a text: the rate-limit text if the message of
\* the error contains "429", otherwise the prefix followed by the message.
\* So every call that completes adds exactly one message of the model, with
\* the text returned, and the error toast is not shown.
NeverRejects ==
    [][settled' # settled =>
           LET done == settled'[1]
               try == TryBlock(apiKey, done.userText, done.image, done.reply)
               added == {i \in 1..Len(messages') :
                             /\ messages'[i].id > nextId
                             /\ messages'[i].role = RoleModel}
           IN  /\ done.result.status = "fulfilled"
               /\ try.threw =>
                      /\ try.error.isError =>
                             done.result.value =
                                 (IF Includes(try.error.message, <<"4", "2", "9">>)
                                  THEN RateLimitText
                                  ELSE ErrorPrefix \o try.error.message)
                      /\ ~try.error.isError =>
                             done.result.value = ErrorPrefix \o UnknownError
               /\ ~apiKey => done.result.value = ErrorPrefix \o MsgNoKey
               /\ (apiKey /\ done.reply = ReplySafety
                      /\ (NonBlank(done.userText) \/ done.image = ImageData)) =>
                      done.result.value = ErrorPrefix \o MsgSafety
               /\ added = {Len(messages')}
               /\ messages'[Len(messages')].text = done.result.value
               /\ toast' # "error"]_vars

WitnessNeverRejects ==
    /\ settled # <<>>
    /\ settled[1].reply = FailQuota
    /\ settled[1].result = [status |-> "fulfilled", value |-> RateLimitText]
    /\ messages[Len(messages)].role = RoleModel
    /\ messages[Len(messages)].text = RateLimitText
    /\ toast = Null

\* C27: the history handed to the backend chat never has more than 30
\* entries: a history of at most 30 is handed over as it is, a longer one is
\* cut to its last 30 entries in their order.
HistoryAtMostThirty ==
    (lastCall # <<>> /\ lastCall[1].chatHistory # <<>>) =>
        LET all == FormattedHistory(lastCall[1].history)
            handed == lastCall[1].chatHistory[1]
            n == Len(all)
        IN  /\ Len(handed) <= 30
            /\ n <= 30 => handed = all
            /\ n > 30 => handed = [i \in 1..30 |-> all[n - 30 + i]]

WitnessHistoryAtMostThirty ==
    /\ lastCall # <<>>
    /\ lastCall[1].chatHistory # <<>>
    /\ Len(lastCall[1].history) = 32
    /\ Len(lastCall[1].chatHistory[1]) = 30
    /\ lastCall[1].chatHistory[1][1] # FormatEntry(lastCall[1].history[1])

\* C28: every entry of the history sent to the backend has at least one
\* part: an image part if the image of the message is a data URL that
\* matches, a text part if its text is not blank, and a text part of one
\* space if there would be no part otherwise; its role is "user" for a
\* message of the user and "model" otherwise.
EntriesHaveParts ==
    (lastCall # <<>> /\ lastCall[1].chatHistory # <<>>) =>
        LET history == lastCall[1].history
            handed == lastCall[1].chatHistory[1]
            skipped == Len(history) - Len(handed)
        IN  \A i \in 1..Len(handed) :
                LET msg == history[skipped + i]
                    parts == handed[i].parts
                    imageParts == {k \in 1..Len(parts) : HasField(parts[k], "inlineData")}
                    textParts == {k \in 1..Len(parts) : HasField(parts[k], "text")}
                    hasImage == msg.image = ImageData
                    hasText == msg.text # <<>> /\ \E k \in 1..Len(msg.text) :
                                                      msg.text[k] \notin Whitespace
                IN  /\ Len(parts) >= 1
                    /\ imageParts \cup textParts = 1..Len(parts)
                    /\ Cardinality(imageParts) = (IF hasImage THEN 1 ELSE 0)
                    /\ \A k \in imageParts :
                           parts[k].inlineData =
                               [mimeType |-> <<"i", "m", "a", "g", "e", "/", "p", "n", "g">>,
                                data |-> <<"A", "A">>]
                    /\ Cardinality(textParts) = (IF hasText \/ ~hasImage THEN 1 ELSE 0)
                    /\ \A k \in textParts :
                           parts[k].text = (IF hasText THEN msg.text ELSE <<" ">>)
                    /\ handed[i].role = (IF msg.role = "user" THEN "user" ELSE "model")

WitnessEntriesHaveParts ==
    /\ lastCall # <<>>
    /\ lastCall[1].chatHistory # <<>>
    /\ \E i \in 1..Len(lastCall[1].chatHistory[1]) :
           LET entry == lastCall[1].chatHistory[1][i]
           IN  /\ entry.role = "user"
               /\ entry.parts = <<[text |-> <<" ">>]>>
               /\ lastCall[1].history[i].image = ImageSvg
    /\ \E i \in 1..Len(lastCall[1].chatHistory[1]) :
           Len(lastCall[1].chatHistory[1][i].parts) = 2

====
